---- MODULE Spec2Model ----
(***************************************************************************)
(* State-machine model of the SochDB-backed LangGraph checkpointer         *)
(* (src/langgraph/checkpointer.py).                                        *)
(*                                                                         *)
(* Strings and byte strings are sequences of one-unit strings.  A text     *)
(* unit is an ASCII character or the code point "U00E9" (e-acute) or       *)
(* "UFFFD" (the replacement character); a byte unit is an ASCII character  *)
(* or one of the raw bytes "xC3", "xA9", "xFF".  An optional value is a    *)
(* sequence of length 0 (None / missing) or 1.                             *)
(***************************************************************************)
EXTENDS Integers, Sequences, FiniteSets, TLC

\* ------------------------------------------------------------- bounds
\* Longest recorded history of store-changing operations.
MaxOps == 3
\* Largest explicit limit handed to list().
MaxLimit == 2

\* ------------------------------------------------------- text and bytes
None == <<>>
Some(x) == <<x>>

RawBytes == {"xC3", "xA9", "xFF"}
NonAscii == {"U00E9", "UFFFD"}

\* Byte value of an ASCII unit that can occur in a key.
Ord(c) ==
  CASE c = "/" -> 47
    [] c = "a" -> 97
    [] c = "b" -> 98
    [] c = "c" -> 99
    [] c = "e" -> 101
    [] c = "h" -> 104
    [] c = "i" -> 105
    [] c = "k" -> 107
    [] c = "n" -> 110
    [] c = "o" -> 111
    [] c = "p" -> 112
    [] c = "r" -> 114
    [] c = "s" -> 115
    [] c = "t" -> 116
    [] c = "w" -> 119
    [] c = "x" -> 120
    [] c = "y" -> 121
    [] OTHER -> 0

HasPrefix(s, p) == Len(p) <= Len(s) /\ SubSeq(s, 1, Len(p)) = p

\* s < t in the byte-wise lexicographic order of the substrate's keys.
LexLess(s, t) ==
  \E i \in 1..Len(t) :
    /\ i <= Len(s) + 1
    /\ \A j \in 1..(i - 1) : s[j] = t[j]
    /\ IF i = Len(s) + 1 THEN TRUE ELSE Ord(s[i]) < Ord(t[i])

RECURSIVE Utf8Encode(_)
\* str.encode(): UTF-8.
Utf8Encode(s) ==
  IF s = <<>> THEN <<>>
  ELSE (CASE Head(s) = "U00E9" -> <<"xC3", "xA9">>
          [] Head(s) = "UFFFD" -> <<"xEF", "xBF", "xBD">>
          [] OTHER -> <<Head(s)>>) \o Utf8Encode(Tail(s))

RECURSIVE Utf8DecodeReplace(_)
\* bytes.decode("utf-8", errors="replace").
Utf8DecodeReplace(b) ==
  IF b = <<>> THEN <<>>
  ELSE IF Len(b) >= 2 /\ b[1] = "xC3" /\ b[2] = "xA9"
       THEN <<"U00E9">> \o Utf8DecodeReplace(SubSeq(b, 3, Len(b)))
  ELSE IF Len(b) >= 3 /\ b[1] = "xEF" /\ b[2] = "xBF" /\ b[3] = "xBD"
       THEN <<"UFFFD">> \o Utf8DecodeReplace(SubSeq(b, 4, Len(b)))
  ELSE IF b[1] \in RawBytes \cup {"xEF", "xBF", "xBD"}
       THEN <<"UFFFD">> \o Utf8DecodeReplace(Tail(b))
  ELSE <<b[1]>> \o Utf8DecodeReplace(Tail(b))

RECURSIVE ValidUtf8(_)
\* Whether bytes.decode() (strict) succeeds.
ValidUtf8(b) ==
  IF b = <<>> THEN TRUE
  ELSE IF Len(b) >= 2 /\ b[1] = "xC3" /\ b[2] = "xA9"
       THEN ValidUtf8(SubSeq(b, 3, Len(b)))
  ELSE IF Len(b) >= 3 /\ b[1] = "xEF" /\ b[2] = "xBF" /\ b[3] = "xBD"
       THEN ValidUtf8(SubSeq(b, 4, Len(b)))
  ELSE IF b[1] \in RawBytes \cup {"xEF", "xBF", "xBD"} THEN FALSE
  ELSE ValidUtf8(Tail(b))

RECURSIVE SplitOn(_, _)
\* seq.split(d): the segments of s between occurrences of d.
SplitOn(s, d) ==
  IF \A i \in 1..Len(s) : s[i] # d THEN <<s>>
  ELSE LET i == CHOOSE k \in 1..Len(s) :
                  s[k] = d /\ \A j \in 1..(k - 1) : s[j] # d
       IN <<SubSeq(s, 1, i - 1)>> \o SplitOn(SubSeq(s, i + 1, Len(s)), d)

RECURSIVE Join(_, _)
Join(parts, d) ==
  IF parts = <<>> THEN <<>>
  ELSE IF Len(parts) = 1 THEN parts[1]
  ELSE parts[1] \o <<d>> \o Join(Tail(parts), d)


\* ------------------------------------------------------------ JSON text
\* json.dumps escapes every non-ASCII code point (ensure_ascii).  Payload
\* texts of the model hold no quote or backslash.
RECURSIVE JsonEscape(_)
JsonEscape(s) ==
  IF s = <<>> THEN <<>>
  ELSE (CASE Head(s) = "U00E9" -> <<"\\", "u", "0", "0", "e", "9">>
          [] Head(s) = "UFFFD" -> <<"\\", "u", "f", "f", "f", "d">>
          [] OTHER -> <<Head(s)>>) \o JsonEscape(Tail(s))

RECURSIVE JsonUnescapeOk(_)
JsonUnescapeOk(s) ==
  IF s = <<>> THEN TRUE
  ELSE IF Head(s) = "\\"
       THEN /\ Len(s) >= 6
            /\ SubSeq(s, 2, 6) \in {<<"u", "0", "0", "e", "9">>,
                                    <<"u", "f", "f", "f", "d">>}
            /\ JsonUnescapeOk(SubSeq(s, 7, Len(s)))
  ELSE JsonUnescapeOk(Tail(s))

RECURSIVE JsonUnescape(_)
JsonUnescape(s) ==
  IF s = <<>> THEN <<>>
  ELSE IF Head(s) = "\\"
       THEN (IF SubSeq(s, 2, 6) = <<"u", "0", "0", "e", "9">>
             THEN <<"U00E9">> ELSE <<"UFFFD">>)
            \o JsonUnescape(SubSeq(s, 7, Len(s)))
  ELSE <<Head(s)>> \o JsonUnescape(Tail(s))

Quote(s) == <<"\"">> \o s \o <<"\"">>
NullText == <<"n", "u", "l", "l">>

\* json.dumps(data) for data = {"checkpoint": c, "metadata": m,
\* "parent_config": p}, the members in that order.
JsonDumps(data) ==
  <<"{">> \o Quote(JsonEscape(data[1])) \o <<",">>
          \o Quote(JsonEscape(data[2])) \o <<",">>
          \o (IF data[3] = None THEN NullText ELSE Quote(JsonEscape(data[3][1])))
          \o <<"}">>

\* json.loads(text): [ok |-> FALSE] when it raises, else the dict, <<>> for
\* {} and <<checkpoint, metadata, parent_config>> for an envelope.
JsonLoads(text) ==
  LET segs == SplitOn(text, "\"")
  IN IF text = <<"{", "}">> THEN [ok |-> TRUE, data |-> <<>>]
     ELSE IF /\ Len(segs) = 5
             /\ segs[1] = <<"{">> /\ segs[3] = <<",">>
             /\ segs[5] = <<",">> \o NullText \o <<"}">>
             /\ JsonUnescapeOk(segs[2]) /\ JsonUnescapeOk(segs[4])
          THEN [ok |-> TRUE,
                data |-> <<JsonUnescape(segs[2]), JsonUnescape(segs[4]), None>>]
     ELSE IF /\ Len(segs) = 7
             /\ segs[1] = <<"{">> /\ segs[3] = <<",">>
             /\ segs[5] = <<",">> /\ segs[7] = <<"}">>
             /\ \A i \in {2, 4, 6} : JsonUnescapeOk(segs[i])
          THEN [ok |-> TRUE,
                data |-> <<JsonUnescape(segs[2]), JsonUnescape(segs[4]),
                           Some(JsonUnescape(segs[6]))>>]
     ELSE [ok |-> FALSE, data |-> <<>>]

\* --------------------------------------------------------------- serde
\* An object handed to the serializer is its tuple of member texts: a
\* checkpoint is <<id, channel values>>, a metadata object <<source>>, a
\* write payload <<task_path, writes>>.
SerdeForms == {"bytes", "str"}

SerdeText(obj) == <<"{">> \o Join(obj, ",") \o <<"}">>

\* self.serde.dumps(obj): the object's text, as bytes or as str.
SerdeDumps(obj, form) ==
  IF form = "bytes" THEN [type |-> "bytes", data |-> Utf8Encode(SerdeText(obj))]
  ELSE [type |-> "str", data |-> SerdeText(obj)]

\* self.serde.loads(text): [ok |-> FALSE] when it raises.
SerdeLoads(text) ==
  IF Len(text) >= 2 /\ text[1] = "{" /\ text[Len(text)] = "}"
  THEN [ok |-> TRUE, obj |-> SplitOn(SubSeq(text, 2, Len(text) - 1), ",")]
  ELSE [ok |-> FALSE, obj |-> <<>>]

\* A decode that drops the bytes that are not ASCII.
EnsureJsonableAsciiIgnore(value) ==
  IF value.type = "bytes"
  THEN SelectSeq(value.data, LAMBDA u : u \notin RawBytes)
  ELSE value.data

\* _ensure_jsonable(value)
EnsureJsonable(value) ==
  IF value.type = "bytes" THEN Utf8DecodeReplace(value.data) ELSE value.data

\* ---------------------------------------------------------- key scheme
CheckpointsLit == <<"c", "h", "e", "c", "k", "p", "o", "i", "n", "t", "s">>
WritesLit == <<"w", "r", "i", "t", "e", "s">>

CheckpointPrefix(thread_id) == CheckpointsLit \o <<"/">> \o thread_id \o <<"/">>
CheckpointKey(thread_id, checkpoint_id) ==
  CheckpointsLit \o <<"/">> \o thread_id \o <<"/">> \o checkpoint_id
WritesPrefix(thread_id) == WritesLit \o <<"/">> \o thread_id \o <<"/">>
WritesKey(thread_id, task_id) ==
  WritesLit \o <<"/">> \o thread_id \o <<"/">> \o task_id

\* ----------------------------------------------------------- substrate
\* The ordered key-value store is a function from keys to byte strings.
RECURSIVE SortKeys(_)
SortKeys(S) ==
  IF S = {} THEN <<>>
  ELSE LET m == CHOOSE k \in S : \A o \in S \ {k} : LexLess(k, o)
       IN <<m>> \o SortKeys(S \ {m})

\* A scan that hands the keys back in descending order.
ScanPrefixDescending(store, prefix) ==
  LET up == SortKeys({k \in DOMAIN store : HasPrefix(k, prefix)})
  IN [i \in 1..Len(up) |-> up[Len(up) + 1 - i]]

\* db.scan_prefix(prefix): the keys under the prefix, ascending.
ScanPrefix(store, prefix) ==
  SortKeys({k \in DOMAIN store : HasPrefix(k, prefix)})

\* db.put(key, value)
DbPut(store, key, value) ==
  [k \in DOMAIN store \cup {key} |-> IF k = key THEN value ELSE store[k]]

\* db.delete(key)
DbDelete(store, key) == [k \in DOMAIN store \ {key} |-> store[k]]

RECURSIVE DeleteAll(_, _)
DeleteAll(store, keys) ==
  IF keys = <<>> THEN store
  ELSE DeleteAll(DbDelete(store, Head(keys)), Tail(keys))

\* ------------------------------------------------------------ handlers
Absent == [tag |-> "absent"]
Raised(e) == [tag |-> "raised", exc |-> e]
Config(thread_id, checkpoint_id) ==
  [tag |-> "config", thread_id |-> thread_id, checkpoint_id |-> checkpoint_id]
CheckpointTuple(config, checkpoint, metadata, parent_config) ==
  [tag |-> "tuple", config |-> config, checkpoint |-> checkpoint,
   metadata |-> metadata, parent_config |-> parent_config]

\* Python truthiness of an optional string: neither None nor "".
Truthy(opt) == opt # None /\ opt[1] # <<>>

\* _get_data(key): None, or Some(dict); every exception is swallowed.
GetData(store, key) ==
  IF key \notin DOMAIN store THEN None
  ELSE LET val == store[key]
       IN IF val = <<>> THEN None
          ELSE IF ~ValidUtf8(val) THEN None
          ELSE LET r == JsonLoads(Utf8DecodeReplace(val))
               IN IF r.ok THEN Some(r.data) ELSE None

\* "if not data": None and the empty dict are both falsy.
DataPresent(data) == data # None /\ data[1] # <<>>

\* A scan that keeps the first key it visits.
LatestKeyFirst(keys) == keys[1]

\* The last key the forward scan visits.
LatestKey(keys) == keys[Len(keys)]

\* Lines 61-70: deserialize the envelope's members and build the tuple.
DecodeTuple(config, data) ==
  LET c == SerdeLoads(data[1])
      m == SerdeLoads(data[2])
  IN IF ~c.ok \/ ~m.ok THEN Raised("JSONDecodeError")
     ELSE CheckpointTuple(config, c.obj, m.obj, data[3])

\* A get_tuple whose latest branch lacks "else: return None".
GetTupleNoEarlyReturn(store, thread_id, checkpoint_id) ==
  LET keys == ScanPrefix(store, CheckpointPrefix(thread_id))
      data == IF Truthy(checkpoint_id)
              THEN GetData(store, CheckpointKey(thread_id, checkpoint_id[1]))
              ELSE IF keys # <<>> THEN GetData(store, LatestKey(keys))
              ELSE None
  IN IF ~Truthy(checkpoint_id) /\ keys = <<>> THEN Raised("UnboundLocalError")
     ELSE IF ~DataPresent(data) THEN Absent
     ELSE DecodeTuple(Config(thread_id, checkpoint_id), data[1])

\* get_tuple(config): checkpoint_id is Some(id), or None when absent.
GetTuple(store, thread_id, checkpoint_id) ==
  LET keys == ScanPrefix(store, CheckpointPrefix(thread_id))
      data == IF Truthy(checkpoint_id)
              THEN GetData(store, CheckpointKey(thread_id, checkpoint_id[1]))
              ELSE IF keys # <<>> THEN GetData(store, LatestKey(keys))
              ELSE None
  IN IF ~DataPresent(data) THEN Absent
     ELSE DecodeTuple(Config(thread_id, checkpoint_id), data[1])

RECURSIVE CollectFound(_, _, _)
\* The loop of list(): an exception ends it and keeps what was found.
CollectFound(store, thread_id, keys) ==
  IF keys = <<>> THEN <<>>
  ELSE LET data == GetData(store, Head(keys))
       IN IF ~DataPresent(data)
          THEN CollectFound(store, thread_id, Tail(keys))
          ELSE LET c == SerdeLoads(data[1][1])
                   m == SerdeLoads(data[1][2])
               IN IF ~c.ok \/ ~m.ok \/ Len(c.obj) < 2 THEN <<>>
                  ELSE <<CheckpointTuple(Config(thread_id, Some(c.obj[1])),
                                         c.obj, m.obj, data[1][3])>>
                       \o CollectFound(store, thread_id, Tail(keys))

\* A list that yields in scan order.
ReverseNot(s) == s

\* reversed(found_checkpoints)
Reverse(s) == [i \in 1..Len(s) |-> s[Len(s) + 1 - i]]

\* "if limit and count >= limit: break": limit is Some(k) or None.
ApplyLimit(found, limit) ==
  IF limit # None /\ limit[1] # 0 /\ limit[1] < Len(found)
  THEN SubSeq(found, 1, limit[1])
  ELSE found

\* list(config, limit=limit): the checkpoints it yields, in order.
List(store, thread_id, limit) ==
  ApplyLimit(Reverse(CollectFound(store, thread_id,
                       ScanPrefix(store, CheckpointPrefix(thread_id)))), limit)

\* An envelope whose metadata member is not the one of the call.
EnvelopeStaleMetadata(checkpoint, metadata, thread_ts, form) ==
  Utf8Encode(JsonDumps(<<EnsureJsonable(SerdeDumps(checkpoint, form)),
                         EnsureJsonable(SerdeDumps(<<<<"n">>>>, form)),
                         thread_ts>>))

\* The bytes put() stores under the checkpoint key.
Envelope(checkpoint, metadata, thread_ts, form) ==
  Utf8Encode(JsonDumps(<<EnsureJsonable(SerdeDumps(checkpoint, form)),
                         EnsureJsonable(SerdeDumps(metadata, form)),
                         thread_ts>>))

\* The configuration put() returns.
PutReturn(thread_id, checkpoint) == Config(thread_id, Some(checkpoint[1]))

\* A put that replaces the thread's checkpoints by the new one.
PutReplacingThread(store, thread_id, checkpoint, metadata, thread_ts, form) ==
  DbPut(DeleteAll(store, ScanPrefix(store, CheckpointPrefix(thread_id))),
        CheckpointKey(thread_id, checkpoint[1]),
        Envelope(checkpoint, metadata, thread_ts, form))

\* put(config, checkpoint, metadata, new_versions): the store it leaves.
Put(store, thread_id, checkpoint, metadata, thread_ts, form) ==
  DbPut(store, CheckpointKey(thread_id, checkpoint[1]),
        Envelope(checkpoint, metadata, thread_ts, form))

\* The bytes put_writes() stores.
WriteBlob(task_path, writes, form) ==
  LET blob == SerdeDumps(<<task_path, writes>>, form)
  IN IF blob.type = "str" THEN Utf8Encode(blob.data) ELSE blob.data

\* A put_writes that keeps the record a task already has.
PutWritesKeepFirst(store, thread_id, task_id, task_path, writes, form) ==
  IF WritesKey(thread_id, task_id) \in DOMAIN store THEN store
  ELSE DbPut(store, WritesKey(thread_id, task_id),
             WriteBlob(task_path, writes, form))

\* put_writes(config, writes, task_id, task_path)
PutWrites(store, thread_id, task_id, task_path, writes, form) ==
  DbPut(store, WritesKey(thread_id, task_id), WriteBlob(task_path, writes, form))

\* A delete_thread that forgets the write log.
DeleteThreadCheckpointsOnly(store, thread_id) ==
  DeleteAll(store, ScanPrefix(store, CheckpointPrefix(thread_id)))

\* delete_thread(thread_id): checkpoints first, then writes.
DeleteThread(store, thread_id) ==
  LET s1 == DeleteAll(store, ScanPrefix(store, CheckpointPrefix(thread_id)))
  IN DeleteAll(s1, ScanPrefix(s1, WritesPrefix(thread_id)))

\* ------------------------------------------------------- state machine
VARIABLES
  db,       \* the substrate: key |-> stored bytes
  hist,     \* the store-changing calls made so far, in order
  last,     \* the most recent call and what it returned
  self_db,  \* self._db: None, or Some(h) for the h-th handle opened
  opened,   \* how many times Database.open has returned a handle
  closed,   \* the handles close() has closed
  pc,       \* per caller, the frame of the call it is executing
  calls,    \* how many more calls the callers may begin
  incident_state,  \* IncidentCommander.incident_state
  incidents,       \* the incidents/current/ keys of the commander's database
  cpc,             \* where the commander is in monitor_loop / handle_incident
  count,           \* monitor_loop: count
  iterations,      \* monitor_loop: iterations
  severity,        \* monitor_loop: the severity it read last
  handled          \* how many times handle_incident has been entered

vars == <<db, hist, last, self_db, opened, closed, pc, calls,
          incident_state, incidents, cpc, count, iterations, severity, handled>>

\* The incident commander (src/demos/2_incident_response), a program of
\* its own: CommanderSpec runs it, the other specifications leave it as
\* constructed.
cmdvars == <<incident_state, incidents, cpc, count, iterations, severity, handled>>
storevars == <<db, hist, last, self_db, opened, closed, pc, calls>>

\* The instance's handle and the callers' frames: the state the step-level
\* specifications (FaultSpec, RaceSpec) add to the store.
stepvars == <<self_db, opened, closed, pc, calls>>

\* Inputs.
ThreadIds == {<<"a">>, <<"a", "/", "b">>, <<"c">>}
CheckpointIds == {<<"x">>, <<"y">>, <<"b", "/", "x">>}
TaskIds == {<<"x">>, <<"y">>}
\* form: whether the serializer hands this object back as bytes or as str.
Payloads ==
  {[state |-> <<"p">>, meta |-> <<"n">>, ts |-> None, form |-> "str"],
   [state |-> <<"U00E9">>, meta |-> <<"o">>, ts |-> Some(<<"t">>),
    form |-> "bytes"]}
WriteBatches ==
  {[task_path |-> <<>>, writes |-> <<"p">>, form |-> "str"],
   [task_path |-> <<"n">>, writes |-> <<"U00E9">>, form |-> "bytes"]}
\* checkpoint_id of a get_tuple config: absent, "", or an id.
ConfigIds == {None, Some(<<>>), Some(<<"x">>), Some(<<"b", "/", "x">>)}
Limits == {None} \cup {Some(k) : k \in 0..MaxLimit}
\* Values another writer of the database can leave under a key: empty,
\* not JSON, and an envelope whose checkpoint member the serializer cannot
\* load.
BadStateEnvelope == Utf8Encode(JsonDumps(<<<<"o">>, <<"{", "n", "}">>, None>>))
Malformed == {<<>>, <<"o">>, BadStateEnvelope}

Call(op, thread_id, id, x, y, z) ==
  [op |-> op, thread_id |-> thread_id, id |-> id, x |-> x, y |-> y, z |-> z]
Returned(op, thread_id, arg, ret) ==
  [op |-> op, thread_id |-> thread_id, arg |-> arg, ret |-> ret]

\* A read changes neither db nor hist, and no call reads last: whatever may
\* follow a read may follow the state the read was issued in, and leads to
\* the same state.  The calls are therefore issued from the states whose
\* last call changed the store; every state and every store is still reached.
ReadOps == {"get_tuple", "list"}
Quiescent == last.op \notin ReadOps

\* The callers of one store instance.
Callers == {1, 2}

\* The frame of a call in progress: what it was called with, the substrate
\* call it makes next, whether its evaluation of self.db found the handle
\* unset, the scan's position, and latest_key / found_checkpoints.  fault
\* and g are history: whether a substrate call of this call raised, and
\* what the store held when the call began.
Frame(op, thread_id, arg, stage, init, cursor, acc, fault, g) ==
  [op |-> op, thread_id |-> thread_id, arg |-> arg, stage |-> stage,
   init |-> init, cursor |-> cursor, acc |-> acc, fault |-> fault, g |-> g]
Idle == Frame("idle", <<>>, None, "none", "ready", None, None, FALSE, None)

\* __init__: self._db = None, nothing opened, no call in progress.
InitInstance ==
  /\ self_db = None
  /\ opened = 0
  /\ closed = {}
  /\ pc = [c \in Callers |-> Idle]

\* IncidentCommander.__init__, lines 26-33, on a database without incident
\* keys; monitor_loop not yet called.
NoCommander ==
  /\ incident_state = "NONE"
  /\ incidents = [severity |-> None, state |-> None]
  /\ cpc = "new"
  /\ count = 0
  /\ iterations = 0
  /\ severity = None
  /\ handled = 0

\* Spec takes each call as one atomic step on an open substrate; it begins
\* no step-level call.
Init ==
  /\ db = <<>>
  /\ hist = <<>>
  /\ last = Returned("init", <<>>, None, Absent)
  /\ InitInstance
  /\ NoCommander
  /\ calls = 0

put(thread_id, checkpoint_id, p) ==
  /\ Quiescent
  /\ Len(hist) < MaxOps
  /\ db' = Put(db, thread_id, <<checkpoint_id, p.state>>, <<p.meta>>, p.ts,
               p.form)
  /\ hist' = Append(hist, Call("put", thread_id, checkpoint_id,
                               p.state, p.meta, p.ts))
  /\ last' = Returned("put", thread_id, None,
                      PutReturn(thread_id, <<checkpoint_id, p.state>>))
  /\ UNCHANGED <<stepvars, cmdvars>>

get_tuple(thread_id, checkpoint_id) ==
  /\ Quiescent
  /\ last' = Returned("get_tuple", thread_id, checkpoint_id,
                      GetTuple(db, thread_id, checkpoint_id))
  /\ UNCHANGED <<db, hist>>
  /\ UNCHANGED <<stepvars, cmdvars>>

list(thread_id, limit) ==
  /\ Quiescent
  /\ last' = Returned("list", thread_id, limit, List(db, thread_id, limit))
  /\ UNCHANGED <<db, hist>>
  /\ UNCHANGED <<stepvars, cmdvars>>

put_writes(thread_id, task_id, w) ==
  /\ Quiescent
  /\ Len(hist) < MaxOps
  /\ db' = PutWrites(db, thread_id, task_id, w.task_path, w.writes, w.form)
  /\ hist' = Append(hist, Call("put_writes", thread_id, task_id,
                               w.task_path, w.writes, None))
  /\ last' = Returned("put_writes", thread_id, None, Absent)
  /\ UNCHANGED <<stepvars, cmdvars>>

delete_thread(thread_id) ==
  /\ Quiescent
  /\ Len(hist) < MaxOps
  /\ db' = DeleteThread(db, thread_id)
  /\ hist' = Append(hist, Call("delete_thread", thread_id, <<>>, <<>>, <<>>, None))
  /\ last' = Returned("delete_thread", thread_id, None, Absent)
  /\ UNCHANGED <<stepvars, cmdvars>>

\* Another writer of the shared database overwrites a stored checkpoint.
external_write(key, bytes) ==
  /\ Quiescent
  /\ Len(hist) < MaxOps
  /\ HasPrefix(key, CheckpointsLit \o <<"/">>)
  /\ db' = DbPut(db, key, bytes)
  /\ hist' = Append(hist, Call("external_write", <<>>, key, bytes, <<>>, None))
  /\ last' = Returned("external_write", <<>>, None, Absent)
  /\ UNCHANGED <<stepvars, cmdvars>>

Next ==
  \/ \E t \in ThreadIds, c \in CheckpointIds, p \in Payloads : put(t, c, p)
  \/ \E t \in ThreadIds, c \in ConfigIds : get_tuple(t, c)
  \/ \E t \in ThreadIds, l \in Limits : list(t, l)
  \/ \E t \in ThreadIds, k \in TaskIds, w \in WriteBatches :
       put_writes(t, k, w)
  \/ \E t \in ThreadIds : delete_thread(t)
  \/ \E k \in DOMAIN db, b \in Malformed : external_write(k, b)

Spec == Init /\ [][Next]_vars

\* ------------------------------------------------- history vocabulary
LastCall == hist[Len(hist)]

\* Neither thread's key prefix extends the other's.
Unrelated(t, u) ==
  /\ ~HasPrefix(CheckpointPrefix(t), CheckpointPrefix(u))
  /\ ~HasPrefix(CheckpointPrefix(u), CheckpointPrefix(t))

\* Every recorded call is one of ops on thread t, or a call on a thread
\* unrelated to t.
OnlyCalls(t, ops) ==
  \A i \in 1..Len(hist) :
    \/ hist[i].thread_id = t /\ hist[i].op \in ops
    \/ /\ hist[i].op \in {"put", "put_writes", "delete_thread"}
       /\ hist[i].thread_id # t
       /\ Unrelated(hist[i].thread_id, t)

PutIsOn(h, t) == h.op = "put" /\ h.thread_id = t
PutsOn(t) == SelectSeq(hist, LAMBDA h : PutIsOn(h, t))
WritesOn(t) == SelectSeq(hist, LAMBDA h : h.op = "put_writes" /\ h.thread_id = t)

\* What a get_tuple issued with config ids (t, c) returns for the checkpoint
\* a recorded put call h stored.
TupleOf(t, c, h) == CheckpointTuple(Config(t, c), <<h.id, h.x>>, <<h.y>>, h.z)

IsGetLatest(t) ==
  last.op = "get_tuple" /\ last.thread_id = t /\ ~Truthy(last.arg)

\* ---------------------------------------------------------------- C1
\* C1: on every thread whose recorded calls are puts with strictly
\* increasing checkpoint ids (and put_writes), whatever unrelated threads
\* did, get_tuple without a checkpoint_id returns the checkpoint, metadata
\* and parent of the last put.
C1_LatestAfterIncreasingPuts ==
  \A t \in ThreadIds :
    LET ps == PutsOn(t)
    IN (/\ OnlyCalls(t, {"put", "put_writes"})
        /\ ps # <<>>
        /\ \A i \in 1..(Len(ps) - 1) : LexLess(ps[i].id, ps[i + 1].id)
        /\ IsGetLatest(t))
       => last.ret = TupleOf(t, last.arg, ps[Len(ps)])

\* Three increasing puts on the thread "a/b", then get_latest on it.
C1_Witness ==
  LET t == <<"a", "/", "b">>
      ps == PutsOn(t)
  IN /\ Len(ps) = 3
     /\ \A i \in 1..2 : LexLess(ps[i].id, ps[i + 1].id)
     /\ IsGetLatest(t)
     /\ last.ret.tag = "tuple"

\* ---------------------------------------------------------------- C2
\* C2: a get_tuple by (thread_id, checkpoint_id) issued right after put
\* returns exactly the checkpoint, metadata and parent that put was given,
\* whether the serializer handed back bytes or str; and a get_tuple on the
\* configuration put returned retrieves what was just written.
C2_GetAfterPutRoundTrip ==
  /\ (/\ hist # <<>>
      /\ LastCall.op = "put"
      /\ last.op = "get_tuple"
      /\ last.thread_id = LastCall.thread_id
      /\ last.arg = Some(LastCall.id))
     => last.ret = TupleOf(last.thread_id, last.arg, LastCall)
  /\ last.op = "put"
     => /\ last.ret.thread_id = LastCall.thread_id
        /\ last.ret.checkpoint_id = Some(LastCall.id)
        /\ GetTuple(db, last.ret.thread_id, last.ret.checkpoint_id)
             = TupleOf(last.ret.thread_id, last.ret.checkpoint_id, LastCall)

\* A non-ASCII state serialized as bytes was put and read back by its id.
C2_Witness ==
  /\ hist # <<>>
  /\ LastCall.op = "put"
  /\ LastCall.x = <<"U00E9">>
  /\ last.op = "get_tuple"
  /\ last.thread_id = LastCall.thread_id
  /\ last.arg = Some(LastCall.id)
  /\ last.ret.tag = "tuple"
  /\ last.ret.checkpoint = <<LastCall.id, <<"U00E9">>>>

\* ---------------------------------------------------------------- C3
IsPrefixOf(s, t) == Len(s) <= Len(t) /\ SubSeq(t, 1, Len(s)) = s

\* C3: list with limit k yields at most k checkpoints, newest first
\* (descending checkpoint_id), and they are a prefix of what list yields
\* without a limit.  Stated for threads that only their own calls and
\* calls on unrelated threads have touched.
C3_ListAtMostLimit ==
  (/\ last.op = "list"
   /\ last.arg # None
   /\ OnlyCalls(last.thread_id, {"put", "put_writes", "delete_thread"}))
  => /\ Len(last.ret) <= last.arg[1]
     /\ \A i \in 1..(Len(last.ret) - 1) :
          LexLess(last.ret[i + 1].checkpoint[1], last.ret[i].checkpoint[1])
     /\ IsPrefixOf(last.ret, List(db, last.thread_id, None))

\* ---------------------------------------------------------------- C4
\* C4: right after delete_thread(t) the scan of t's write prefix is empty
\* and get_tuple without a checkpoint_id returns absent, whatever t held.
C4_DeleteThreadLeavesNothing ==
  (hist # <<>> /\ LastCall.op = "delete_thread")
  => LET t == LastCall.thread_id
     IN /\ ScanPrefix(db, WritesPrefix(t)) = <<>>
        /\ GetTuple(db, t, None) = Absent
        /\ IsGetLatest(t) => last.ret = Absent

\* A thread with a checkpoint and a write record was deleted and then asked
\* for its latest checkpoint.
C4_Witness ==
  /\ Len(hist) = 3
  /\ hist[1].op = "put"
  /\ hist[2].op = "put_writes"
  /\ hist[3].op = "delete_thread"
  /\ hist[1].thread_id = hist[3].thread_id
  /\ hist[2].thread_id = hist[3].thread_id
  /\ IsGetLatest(hist[3].thread_id)
  /\ last.ret = Absent

\* ---------------------------------------------------------------- C5
\* The record a reader of the write prefix decodes from a stored blob.
DecodedWrite(blob) == SerdeLoads(Utf8DecodeReplace(blob)).obj

\* C5: after any put_writes calls on a thread (and puts, and calls on
\* unrelated threads) the thread's write prefix holds exactly one key per
\* distinct task_id, and it decodes to the task_path and writes of the most
\* recent put_writes for that task_id.
C5_PutWritesLastWriteWins ==
  \A t \in ThreadIds :
    OnlyCalls(t, {"put", "put_writes"})
    => LET ws == WritesOn(t)
           keys == ScanPrefix(db, WritesPrefix(t))
       IN /\ {keys[i] : i \in 1..Len(keys)}
               = {WritesKey(t, ws[i].id) : i \in 1..Len(ws)}
          /\ Len(keys) = Cardinality({ws[i].id : i \in 1..Len(ws)})
          /\ \A i \in 1..Len(ws) :
               (\A j \in (i + 1)..Len(ws) : ws[j].id # ws[i].id)
               => DecodedWrite(db[WritesKey(t, ws[i].id)]) = <<ws[i].x, ws[i].y>>

\* The same (thread, task) was written twice with different writes, and
\* another task once.
C5_Witness ==
  \E t \in ThreadIds :
    LET ws == WritesOn(t)
    IN /\ Len(ws) = 3
       /\ ws[1].id = ws[3].id
       /\ ws[1].y # ws[3].y
       /\ ws[2].id # ws[1].id
       /\ DecodedWrite(db[WritesKey(t, ws[3].id)]) = <<ws[3].x, ws[3].y>>

\* ---------------------------------------------------------------- C6
\* C6: whatever the order of the puts on a thread, get_tuple without a
\* checkpoint_id returns the checkpoint stored under the lexicographically
\* greatest checkpoint_id that was put (the last put of that id).
C6_LatestIsGreatestId ==
  \A t \in ThreadIds :
    LET ps == PutsOn(t)
    IN (OnlyCalls(t, {"put", "put_writes"}) /\ ps # <<>> /\ IsGetLatest(t))
       => \E i \in 1..Len(ps) :
            /\ \A j \in 1..Len(ps) : ~LexLess(ps[i].id, ps[j].id)
            /\ \A j \in (i + 1)..Len(ps) : ps[j].id # ps[i].id
            /\ last.ret = TupleOf(t, last.arg, ps[i])

\* Ids put in the order least, greatest, middle; the greatest is returned.
C6_Witness ==
  \E t \in ThreadIds :
    LET ps == PutsOn(t)
    IN /\ Len(ps) = 3
       /\ LexLess(ps[1].id, ps[3].id)
       /\ LexLess(ps[3].id, ps[2].id)
       /\ IsGetLatest(t)
       /\ last.ret.tag = "tuple"
       /\ last.ret.checkpoint[1] = ps[2].id

\* ---------------------------------------------------------------- C7
HasSeparator(t) == \E i \in 1..Len(t) : t[i] = "/"
PutUnder(t, checkpoint) ==
  \E i \in 1..Len(hist) :
    PutIsOn(hist[i], t) /\ <<hist[i].id, hist[i].x>> = checkpoint

\* C7: get_tuple without a checkpoint_id and list on a thread whose id
\* holds the separator "/" return only checkpoints put under that thread.
C7_NoPrefixBleed ==
  HasSeparator(last.thread_id)
  => /\ (last.op = "get_tuple" /\ ~Truthy(last.arg) /\ last.ret.tag = "tuple")
        => PutUnder(last.thread_id, last.ret.checkpoint)
     /\ last.op = "list"
        => \A i \in 1..Len(last.ret) :
             PutUnder(last.thread_id, last.ret[i].checkpoint)

\* ---------------------------------------------------------------- C8
\* The keys of thread t and what they hold.
ThreadView(store, t) ==
  [k \in {k \in DOMAIN store : \/ HasPrefix(k, CheckpointPrefix(t))
                               \/ HasPrefix(k, WritesPrefix(t))}
     |-> store[k]]

\* C8: put, put_writes and delete_thread on a thread leave the keys of
\* every other thread, and what they hold, as they were.
C8_OtherThreadsUntouched ==
  [][\A t \in ThreadIds :
       (/\ hist' # hist
        /\ last'.op \in {"put", "put_writes", "delete_thread"}
        /\ last'.thread_id # t)
       => ThreadView(db', t) = ThreadView(db, t)]_vars

\* ---------------------------------------------------------------- C9
\* C9: a get_tuple leaves the store as it was; by id on a key that is not
\* stored, and without id on a thread with no checkpoint keys, it returns
\* absent and does not raise.
C9_AbsenceIsAValue ==
  [][(last' # last /\ last'.op = "get_tuple")
     => /\ db' = db
        /\ (/\ Truthy(last'.arg)
            /\ CheckpointKey(last'.thread_id, last'.arg[1]) \notin DOMAIN db)
           => last'.ret = Absent
        /\ (/\ ~Truthy(last'.arg)
            /\ ScanPrefix(db, CheckpointPrefix(last'.thread_id)) = <<>>)
           => last'.ret = Absent]_vars

\* A checkpoint that was put and then deleted is asked for by its id, and
\* an emptied thread for its latest.
C9_Witness ==
  /\ Len(hist) = 2
  /\ hist[1].op = "put"
  /\ hist[2].op = "delete_thread"
  /\ hist[1].thread_id = hist[2].thread_id
  /\ last.op = "get_tuple"
  /\ last.thread_id = hist[1].thread_id
  /\ last.arg = Some(hist[1].id)
  /\ DOMAIN db = {}
  /\ last.ret = Absent

\* --------------------------------------------------------------- C10
\* The key a get_tuple reads: the exact key, or the last key of the scan.
ResolvedKey(store, thread_id, checkpoint_id) ==
  IF Truthy(checkpoint_id) THEN Some(CheckpointKey(thread_id, checkpoint_id[1]))
  ELSE LET keys == ScanPrefix(store, CheckpointPrefix(thread_id))
       IN IF keys = <<>> THEN None ELSE Some(LatestKey(keys))

\* C10: a get_tuple that reads a key holding a malformed value fails with
\* a CodecError.
C10_MalformedRaisesCodecError ==
  LET key == ResolvedKey(db, last.thread_id, last.arg)
  IN (/\ last.op = "get_tuple"
      /\ key # None
      /\ key[1] \in DOMAIN db
      /\ db[key[1]] \in Malformed)
     => last.ret = Raised("CodecError")

\* --------------------------------------------------------------- C12
\* The recorded calls that can change what the key holds: a put that
\* resolves to it and a delete_thread whose prefix covers it.
PutTo(h, key) == h.op = "put" /\ CheckpointKey(h.thread_id, h.id) = key

\* C12: once a checkpoint has been put, get_tuple by its (thread_id,
\* checkpoint_id) returns the value of its first put, whatever put,
\* put_writes, get_tuple and list calls followed, as long as no thread was
\* deleted.
C12_ImmutableOnceWritten ==
  (/\ last.op = "get_tuple"
   /\ Truthy(last.arg)
   /\ \A i \in 1..Len(hist) : hist[i].op \in {"put", "put_writes"}
   /\ \E i \in 1..Len(hist) :
        PutTo(hist[i], CheckpointKey(last.thread_id, last.arg[1])))
  => LET key == CheckpointKey(last.thread_id, last.arg[1])
         first == CHOOSE i \in 1..Len(hist) :
                    /\ PutTo(hist[i], key)
                    /\ \A j \in 1..(i - 1) : ~PutTo(hist[j], key)
     IN last.ret = TupleOf(last.thread_id, last.arg, hist[first])

\* --------------------------------------------------------------- C13
\* C13: a put adds or replaces exactly the key
\* checkpoints/{thread_id}/{checkpoint_id}; the key then holds the whole
\* envelope (state, metadata, parent reference) of the call; every other
\* key holds what it held; and the same put once more leaves the store as
\* it is.
C13_PutWritesOneKey ==
  [][(hist' # hist /\ last'.op = "put")
     => LET h == hist'[Len(hist')]
            key == CheckpointKey(h.thread_id, h.id)
        IN /\ DOMAIN db' = DOMAIN db \cup {key}
           /\ \A k \in DOMAIN db \ {key} : db'[k] = db[k]
           /\ GetData(db', key)
                = Some(<<SerdeText(<<h.id, h.x>>), SerdeText(<<h.y>>), h.z>>)
           /\ \A form \in SerdeForms :
                Put(db', h.thread_id, <<h.id, h.x>>, <<h.y>>, h.z, form) = db'
    ]_vars

\* The same put twice on a thread that holds a write record and another
\* checkpoint: the second leaves the store as the first left it.
C13_Witness ==
  /\ Len(hist) = 3
  /\ hist[1].op = "put_writes"
  /\ hist[2].op = "put"
  /\ hist[3] = hist[2]
  /\ hist[1].thread_id = hist[2].thread_id
  /\ last.op = "put"
  /\ Cardinality(DOMAIN db) = 2
  /\ Put(db, hist[3].thread_id, <<hist[3].id, hist[3].x>>, <<hist[3].y>>,
         hist[3].z, "str") = db

\* ---------------------------------------------------- step-level model
\* Each call is a frame that advances one substrate call at a time, so the
\* states between the substrate calls of one call, the failure of a
\* substrate call, and the calls of a second caller in between are states
\* and steps of the model.  Local computation is part of the step of the
\* substrate call that follows it.

\* The exception a failing substrate call raises (the specification's name
\* for a substrate connection or IO failure).
SubstrateFailure == "StoreUnavailable"

\* A property that never finds the handle set.
HandleUnsetAlways(h) == TRUE

\* "if self._db is None"
HandleUnset(h) == h = None

\* An initialization that keeps a handle another caller has set meanwhile.
OpenHandleIfUnset(h, n) == IF h = None THEN Some(n + 1) ELSE h

\* "self._db = Database.open(self.db_path)": the (n + 1)-th handle, whatever
\* self._db holds by now.
OpenHandle(h, n) == Some(n + 1)

\* close(): "if self._db: self._db.close()"
CloseHandle(h, cl) == IF h # None THEN cl \cup {h[1]} ELSE cl

\* "for kv in self.db.scan_prefix(prefix)": the key the iteration yields
\* after cursor, None when it is exhausted.  The scan is not isolated from
\* writes made while it runs.
NextKey(store, prefix, cursor) ==
  LET rest == SelectSeq(ScanPrefix(store, prefix),
                        LAMBDA k : cursor = None \/ LexLess(cursor[1], k))
  IN IF rest = <<>> THEN None ELSE Some(rest[1])

\* A delete_thread that deletes the write log first.
DeletePhasesWritesFirst == <<"writes", "checkpoints">>

\* A delete_thread that stops after the checkpoints.
DeletePhasesCheckpointsOnly == <<"checkpoints">>

\* The two loops of delete_thread, in the order of the code.
DeletePhases == <<"checkpoints", "writes">>
PhasePrefix(phase, thread_id) ==
  IF phase = "checkpoints" THEN CheckpointPrefix(thread_id)
  ELSE WritesPrefix(thread_id)

\* Lines 98-107: the tuple list() appends for a stored envelope; any
\* exception ends the loop.
DecodeFound(thread_id, data) ==
  LET c == SerdeLoads(data[1])
      m == SerdeLoads(data[2])
  IN IF ~c.ok \/ ~m.ok \/ Len(c.obj) < 2 THEN [ok |-> FALSE, tuple |-> Absent]
     ELSE [ok |-> TRUE,
           tuple |-> CheckpointTuple(Config(thread_id, Some(c.obj[1])),
                                     c.obj, m.obj, data[3])]

\* What the store held when a call began (history, not program state).
Snapshot(store, h, thread_id) ==
  [n |-> Len(h),
   checkpoints |-> ScanPrefix(store, CheckpointPrefix(thread_id)),
   writes |-> ScanPrefix(store, WritesPrefix(thread_id)),
   latest |-> GetTuple(store, thread_id, None)]

\* A call: [op, thread_id, arg]; arg is the checkpoint_id of get_tuple, the
\* limit of list, [id, p] of put and [id, w] of put_writes.
CallOf(op, thread_id, arg) == [op |-> op, thread_id |-> thread_id, arg |-> arg]

FirstStage(call) ==
  CASE call.op = "get_tuple" -> IF Truthy(call.arg) THEN "get" ELSE "scan"
    [] call.op = "list" -> "scan"
    [] call.op = "delete_thread" -> "delete"
    [] OTHER -> "put"

\* latest_key / the exact key of get_tuple, found_checkpoints of list, the
\* loop delete_thread is in.
FirstAcc(call) ==
  CASE call.op = "get_tuple" ->
         IF Truthy(call.arg)
         THEN Some(CheckpointKey(call.thread_id, call.arg[1])) ELSE None
    [] call.op = "list" -> <<>>
    [] call.op = "delete_thread" -> 1
    [] OTHER -> None

\* What a returning call leaves in last.
Completed(c, f, ret, fault, stage, h) ==
  [op |-> f.op, thread_id |-> f.thread_id, arg |-> f.arg, ret |-> ret,
   caller |-> c, fault |-> fault, stage |-> stage, g |-> f.g,
   since |-> SubSeq(h, f.g.n + 1, Len(h))]

Ready(c) == pc[c].op # "idle" /\ pc[c].init = "ready"

\* A caller enters a call and evaluates self.db for its first substrate
\* call: it finds the handle set, or unset and goes on to open it.
begin(c, call) ==
  /\ pc[c].op = "idle"
  /\ calls > 0
  /\ calls' = calls - 1
  /\ hist' = IF call.op = "delete_thread"
             THEN Append(hist, Call("delete_thread", call.thread_id,
                                    <<>>, <<>>, <<>>, None))
             ELSE hist
  /\ pc' = [pc EXCEPT ![c] =
              Frame(call.op, call.thread_id, call.arg, FirstStage(call),
                    IF HandleUnset(self_db) THEN "must_open" ELSE "ready",
                    None, FirstAcc(call), FALSE,
                    Snapshot(db, hist', call.thread_id))]
  /\ UNCHANGED <<db, last, self_db, opened, closed,
                 cmdvars>>

\* The rest of the db property for a caller that found the handle unset.
db_open(c) ==
  /\ pc[c].op # "idle"
  /\ pc[c].init = "must_open"
  /\ self_db' = OpenHandle(self_db, opened)
  /\ opened' = IF self_db' = Some(opened + 1) THEN opened + 1 ELSE opened
  /\ pc' = [pc EXCEPT ![c].init = "ready"]
  /\ UNCHANGED <<db, hist, last, closed, calls,
                 cmdvars>>

\* get_tuple, lines 46-56: one iteration of the scan, or its end.
get_tuple_scan(c) ==
  LET f == pc[c]
      nk == NextKey(db, CheckpointPrefix(f.thread_id), f.cursor)
  IN /\ Ready(c)
     /\ f.op = "get_tuple"
     /\ f.stage = "scan"
     /\ IF nk # None
        THEN /\ pc' = [pc EXCEPT ![c].cursor = nk, ![c].acc = nk]
             /\ UNCHANGED last
        ELSE IF f.acc # None
        THEN /\ pc' = [pc EXCEPT ![c].stage = "get"]
             /\ UNCHANGED last
        ELSE /\ pc' = [pc EXCEPT ![c] = Idle]
             /\ last' = Completed(c, f, Absent, f.fault, "none", hist)
     /\ UNCHANGED <<db, hist, self_db, opened, closed, calls,
                    cmdvars>>

\* A point read that falls back to the key before an unreadable one.
get_tuple_get_fallback(c) ==
  LET f == pc[c]
      data == GetData(db, f.acc[1])
      before == SelectSeq(ScanPrefix(db, CheckpointPrefix(f.thread_id)),
                          LAMBDA k : LexLess(k, f.acc[1]))
      used == IF ~DataPresent(data) /\ before # <<>>
              THEN GetData(db, before[Len(before)]) ELSE data
  IN /\ Ready(c)
     /\ f.op = "get_tuple"
     /\ f.stage = "get"
     /\ pc' = [pc EXCEPT ![c] = Idle]
     /\ last' = Completed(c, f,
                  IF ~DataPresent(used) THEN Absent
                  ELSE DecodeTuple(Config(f.thread_id, f.arg), used[1]),
                  f.fault, "none", hist)
     /\ UNCHANGED <<db, hist, self_db, opened, closed, calls,
                    cmdvars>>

\* get_tuple, lines 37 / 54 and 58-70: the point read and the return.
get_tuple_get(c) ==
  LET f == pc[c]
      data == GetData(db, f.acc[1])
  IN /\ Ready(c)
     /\ f.op = "get_tuple"
     /\ f.stage = "get"
     /\ pc' = [pc EXCEPT ![c] = Idle]
     /\ last' = Completed(c, f,
                  IF ~DataPresent(data) THEN Absent
                  ELSE DecodeTuple(Config(f.thread_id, f.arg), data[1]),
                  f.fault, "none", hist)
     /\ UNCHANGED <<db, hist, self_db, opened, closed, calls,
                    cmdvars>>

\* list, line 94: one iteration of the scan, or its end and the yields.
list_scan(c) ==
  LET f == pc[c]
      nk == NextKey(db, CheckpointPrefix(f.thread_id), f.cursor)
  IN /\ Ready(c)
     /\ f.op = "list"
     /\ f.stage = "scan"
     /\ IF nk # None
        THEN /\ pc' = [pc EXCEPT ![c].cursor = nk, ![c].stage = "get"]
             /\ UNCHANGED last
        ELSE /\ pc' = [pc EXCEPT ![c] = Idle]
             /\ last' = Completed(c, f, ApplyLimit(Reverse(f.acc), f.arg),
                                  f.fault, "none", hist)
     /\ UNCHANGED <<db, hist, self_db, opened, closed, calls,
                    cmdvars>>

\* list, lines 95-106: the read of the key the scan yielded.
list_get(c) ==
  LET f == pc[c]
      data == GetData(db, f.cursor[1])
      t == DecodeFound(f.thread_id, data[1])
  IN /\ Ready(c)
     /\ f.op = "list"
     /\ f.stage = "get"
     /\ IF ~DataPresent(data)
        THEN /\ pc' = [pc EXCEPT ![c].stage = "scan"]
             /\ UNCHANGED last
        ELSE IF t.ok
        THEN /\ pc' = [pc EXCEPT ![c].stage = "scan",
                                 ![c].acc = Append(f.acc, t.tuple)]
             /\ UNCHANGED last
        ELSE /\ pc' = [pc EXCEPT ![c] = Idle]
             /\ last' = Completed(c, f, ApplyLimit(Reverse(f.acc), f.arg),
                                  f.fault, "none", hist)
     /\ UNCHANGED <<db, hist, self_db, opened, closed, calls,
                    cmdvars>>

\* A put whose key becomes visible before its value is written.
put_store_torn(c) ==
  LET f == pc[c]
      checkpoint == <<f.arg.id, f.arg.p.state>>
  IN /\ Ready(c)
     /\ f.op = "put"
     /\ IF f.cursor = None
        THEN /\ db' = DbPut(db, CheckpointKey(f.thread_id, f.arg.id), <<>>)
             /\ pc' = [pc EXCEPT ![c].cursor = Some(<<>>)]
             /\ UNCHANGED <<hist, last>>
        ELSE /\ db' = Put(db, f.thread_id, checkpoint, <<f.arg.p.meta>>,
                          f.arg.p.ts, f.arg.p.form)
             /\ hist' = Append(hist, Call("put", f.thread_id, f.arg.id,
                                          f.arg.p.state, f.arg.p.meta,
                                          f.arg.p.ts))
             /\ pc' = [pc EXCEPT ![c] = Idle]
             /\ last' = Completed(c, f, PutReturn(f.thread_id, checkpoint),
                                  f.fault, "none", hist')
     /\ UNCHANGED <<self_db, opened, closed, calls,
                    cmdvars>>

\* put, lines 136-143.
put_store(c) ==
  LET f == pc[c]
      checkpoint == <<f.arg.id, f.arg.p.state>>
  IN /\ Ready(c)
     /\ f.op = "put"
     /\ db' = Put(db, f.thread_id, checkpoint, <<f.arg.p.meta>>, f.arg.p.ts,
                  f.arg.p.form)
     /\ hist' = Append(hist, Call("put", f.thread_id, f.arg.id, f.arg.p.state,
                                  f.arg.p.meta, f.arg.p.ts))
     /\ pc' = [pc EXCEPT ![c] = Idle]
     /\ last' = Completed(c, f, PutReturn(f.thread_id, checkpoint), f.fault,
                          "none", hist')
     /\ UNCHANGED <<self_db, opened, closed, calls,
                    cmdvars>>

\* put_writes, lines 159-162.
put_writes_store(c) ==
  LET f == pc[c]
  IN /\ Ready(c)
     /\ f.op = "put_writes"
     /\ db' = PutWrites(db, f.thread_id, f.arg.id, f.arg.w.task_path,
                        f.arg.w.writes, f.arg.w.form)
     /\ hist' = Append(hist, Call("put_writes", f.thread_id, f.arg.id,
                                  f.arg.w.task_path, f.arg.w.writes, None))
     /\ pc' = [pc EXCEPT ![c] = Idle]
     /\ last' = Completed(c, f, Absent, f.fault, "none", hist')
     /\ UNCHANGED <<self_db, opened, closed, calls,
                    cmdvars>>

\* delete_thread, lines 165-172: one iteration of the loop it is in (the
\* scan yields a key and the key is deleted), or the end of that loop.
delete_thread_step(c) ==
  LET f == pc[c]
      nk == NextKey(db, PhasePrefix(DeletePhases[f.acc], f.thread_id), f.cursor)
  IN /\ Ready(c)
     /\ f.op = "delete_thread"
     /\ IF nk # None
        THEN /\ db' = DbDelete(db, nk[1])
             /\ pc' = [pc EXCEPT ![c].cursor = nk]
             /\ UNCHANGED last
        ELSE IF f.acc < Len(DeletePhases)
        THEN /\ pc' = [pc EXCEPT ![c].acc = f.acc + 1, ![c].cursor = None]
             /\ UNCHANGED <<db, last>>
        ELSE /\ pc' = [pc EXCEPT ![c] = Idle]
             /\ last' = Completed(c, f, Absent, f.fault, "none", hist)
             /\ UNCHANGED db
     /\ UNCHANGED <<hist, self_db, opened, closed, calls,
                    cmdvars>>

\* The substrate call a caller is about to make raises.  get_tuple catches
\* it around the scan and keeps the latest_key it has (lines 46-51);
\* _get_data catches it and returns None (lines 181-187); list catches it
\* around its loop and yields what it has found (lines 93-108); put,
\* put_writes and delete_thread let it through.
fail_step(c) ==
  LET f == pc[c]
  IN /\ Ready(c)
     /\ UNCHANGED <<db, self_db, opened, closed, calls,
                    cmdvars>>
     /\ IF f.op = "get_tuple" /\ f.stage = "scan" /\ f.acc # None
        THEN /\ pc' = [pc EXCEPT ![c].stage = "get", ![c].fault = TRUE]
             /\ UNCHANGED <<hist, last>>
        ELSE IF f.op = "get_tuple"
        THEN /\ pc' = [pc EXCEPT ![c] = Idle]
             /\ last' = Completed(c, f, Absent, TRUE, f.stage, hist)
             /\ UNCHANGED hist
        ELSE IF f.op = "list" /\ f.stage = "get"
        THEN /\ pc' = [pc EXCEPT ![c].stage = "scan", ![c].fault = TRUE]
             /\ UNCHANGED <<hist, last>>
        ELSE IF f.op = "list"
        THEN /\ pc' = [pc EXCEPT ![c] = Idle]
             /\ last' = Completed(c, f, ApplyLimit(Reverse(f.acc), f.arg),
                                  TRUE, f.stage, hist)
             /\ UNCHANGED hist
        ELSE /\ pc' = [pc EXCEPT ![c] = Idle]
             /\ hist' = Append(hist, Call("failed", f.thread_id, f.op,
                                          <<>>, <<>>, None))
             /\ last' = Completed(c, f, Raised(SubstrateFailure), TRUE,
                                  IF f.op = "delete_thread"
                                  THEN DeletePhases[f.acc] ELSE f.stage,
                                  hist')

\* close(), lines 189-191: it reads self._db, not the db property.
close(c) ==
  /\ pc[c].op = "idle"
  /\ calls > 0
  /\ calls' = calls - 1
  /\ closed' = CloseHandle(self_db, closed)
  /\ last' = Completed(c, [Idle EXCEPT !.op = "close",
                                       !.g = Snapshot(db, hist, <<>>)],
                       Absent, FALSE, "none", hist)
  /\ UNCHANGED <<db, hist, self_db, opened, pc,
                 cmdvars>>

\* ---------------------------------------- one caller, failing substrate
\* Calls one caller may begin.
MaxFaultCalls == 4
FaultThreads == {<<"a">>}
FaultPayload ==
  [state |-> <<"p">>, meta |-> <<"n">>, ts |-> None, form |-> "str"]
FaultBatch == [task_path |-> <<>>, writes |-> <<"p">>, form |-> "str"]
FaultCalls ==
  {CallOf("put", t, [id |-> i, p |-> FaultPayload]) :
     t \in FaultThreads, i \in {<<"x">>, <<"y">>}}
  \cup {CallOf("put_writes", t, [id |-> <<"x">>, w |-> FaultBatch]) :
          t \in FaultThreads}
  \cup {CallOf("delete_thread", t, None) : t \in FaultThreads}
  \cup {CallOf("get_tuple", t, i) :
          t \in FaultThreads, i \in {None, Some(<<"x">>)}}
  \cup {CallOf("list", t, None) : t \in FaultThreads}

FaultInit ==
  /\ db = <<>>
  /\ hist = <<>>
  /\ last = Returned("init", <<>>, None, Absent)
  /\ InitInstance
  /\ NoCommander
  /\ calls = MaxFaultCalls

FaultNext ==
  \/ \E call \in FaultCalls : begin(1, call)
  \/ close(1)
  \/ db_open(1)
  \/ get_tuple_scan(1)
  \/ get_tuple_get(1)
  \/ list_scan(1)
  \/ list_get(1)
  \/ put_store(1)
  \/ put_writes_store(1)
  \/ delete_thread_step(1)
  \/ fail_step(1)

\* A single thread of control over a substrate whose calls may fail.
FaultSpec == FaultInit /\ [][FaultNext]_vars

\* ------------------------------------------ two callers, no failures
\* Calls the two callers may begin, together.
MaxRaceCalls == 3
RaceThread == <<"a">>
RaceCalls ==
  {CallOf("put", RaceThread, [id |-> i, p |-> p]) :
     i \in {<<"x">>, <<"y">>}, p \in Payloads}
  \cup {CallOf("put_writes", RaceThread, [id |-> <<"x">>, w |-> FaultBatch]),
        CallOf("delete_thread", RaceThread, None)}
  \cup {CallOf("get_tuple", RaceThread, i) :
          i \in {None, Some(<<"x">>), Some(<<"y">>)}}

RaceInit ==
  /\ db = <<>>
  /\ hist = <<>>
  /\ last = Returned("init", <<>>, None, Absent)
  /\ InitInstance
  /\ NoCommander
  /\ calls = MaxRaceCalls

RaceNext ==
  \E c \in Callers :
    \/ \E call \in RaceCalls : begin(c, call)
    \/ db_open(c)
    \/ get_tuple_scan(c)
    \/ get_tuple_get(c)
    \/ put_store(c)
    \/ put_writes_store(c)
    \/ delete_thread_step(c)

\* Two callers of one instance, interleaved at every substrate call.
RaceSpec == RaceInit /\ [][RaceNext]_vars

\* --------------------------------------------------------------- C11
\* C11: a call during which a substrate call raised ends by raising the
\* substrate's failure (StoreUnavailable) to its caller; it returns neither
\* absent nor the checkpoints found so far.
C11_SubstrateFailurePropagates ==
  (last.op # "init" /\ last.fault) => last.ret = Raised(SubstrateFailure)

\* --------------------------------------------------------------- C14
\* C14: a delete_thread that runs to its end, on whatever an earlier
\* delete_thread (completed, or stopped midway by a failure) left, returns
\* without error and leaves no checkpoint key and no write key of the
\* thread; deleting an absent key changes nothing, and delete_thread applied
\* twice leaves the store delete_thread applied once leaves.
C14_DeleteThreadRetrySafe ==
  /\ (last.op = "delete_thread" /\ ~last.fault /\ pc[last.caller].op = "idle")
     => /\ last.ret = Absent
        /\ ScanPrefix(db, CheckpointPrefix(last.thread_id)) = <<>>
        /\ ScanPrefix(db, WritesPrefix(last.thread_id)) = <<>>
        /\ \A i \in 1..Len(last.g.checkpoints) :
             DbDelete(db, last.g.checkpoints[i]) = db
  /\ \A t \in FaultThreads :
       DeleteThread(DeleteThread(db, t), t) = DeleteThread(db, t)

\* A delete_thread failed after the checkpoints were gone and before the
\* write record was; the retry ran to its end.
C14_Witness ==
  /\ Len(hist) = 5
  /\ hist[1].op = "put"
  /\ hist[2].op = "put_writes"
  /\ hist[3].op = "delete_thread"
  /\ hist[4].op = "failed"
  /\ hist[5].op = "delete_thread"
  /\ last.op = "delete_thread"
  /\ ~last.fault
  /\ pc[1].op = "idle"
  /\ last.g.checkpoints = <<>>
  /\ last.g.writes # <<>>
  /\ DOMAIN db = {}

\* --------------------------------------------------------------- C15
\* C15: a delete_thread that a substrate failure stops in its second loop,
\* the first being done, ends by signalling PartialDeletion, and the keys
\* it has not deleted are still stored.
C15_PartialDeletionSignalled ==
  (/\ last.op = "delete_thread"
   /\ last.fault
   /\ last.stage = DeletePhases[Len(DeletePhases)]
   /\ last.g.checkpoints # <<>>
   /\ last.g.writes # <<>>
   /\ pc[last.caller].op = "idle")
  => /\ last.ret = Raised("PartialDeletion")
     /\ ScanPrefix(db, CheckpointPrefix(last.thread_id)) = <<>>
     /\ \E k \in 1..(Len(last.g.writes) + 1) :
          ScanPrefix(db, WritesPrefix(last.thread_id))
            = SubSeq(last.g.writes, k, Len(last.g.writes))

\* --------------------------------------------------------------- C16
\* C16: with one caller, the substrate is opened at most once, by the first
\* call that uses it; from then on self._db is that handle for every later
\* call, also after close(); and close() opens nothing.
C16_HandleOpenedAtMostOnce ==
  /\ [](/\ opened <= 1
        /\ self_db = (IF opened = 0 THEN None ELSE Some(1)))
  /\ [][/\ opened' # opened
           => /\ opened = 0
              /\ pc[1].op \notin {"idle", "close"}
              /\ pc[1].init = "must_open"
        /\ self_db # None => self_db' = self_db
        /\ (last' # last /\ last'.op = "close")
           => opened' = opened /\ self_db' = self_db]_vars

\* The handle was opened by the first call, used by the calls after it and
\* closed by the last.
C16_Witness ==
  /\ opened = 1
  /\ closed = {1}
  /\ last.op = "close"
  /\ last.g.n = 3
  /\ pc[1].op = "idle"
  /\ calls = 0

\* --------------------------------------------------------------- C20
\* C20: while a delete_thread runs, and in the state a failure leaves it
\* in, every write key the thread held when the call began is still stored
\* as long as a checkpoint key of the thread is; and no step deletes more
\* than one key.
C20_CheckpointsBeforeWrites ==
  /\ [](\A c \in Callers :
          LET f == IF pc[c].op = "idle" /\ last.op # "init"
                      /\ last.caller = c THEN last ELSE pc[c]
          IN (/\ f.op = "delete_thread"
              /\ ScanPrefix(db, CheckpointPrefix(f.thread_id)) # <<>>)
             => \A i \in 1..Len(f.g.writes) : f.g.writes[i] \in DOMAIN db)
  /\ [][Cardinality(DOMAIN db \ DOMAIN db') <= 1]_vars

\* A delete_thread of a thread with two checkpoints and a write record has
\* deleted one checkpoint.
C20_Witness ==
  /\ pc[1].op = "delete_thread"
  /\ Len(pc[1].g.checkpoints) = 2
  /\ Len(ScanPrefix(db, CheckpointPrefix(pc[1].thread_id))) = 1
  /\ pc[1].g.writes # <<>>
  /\ ScanPrefix(db, WritesPrefix(pc[1].thread_id)) = pc[1].g.writes

\* --------------------------------------------------------------- C17
\* C17: a caller that found the handle unset opens the substrate whatever
\* has happened since it looked: it installs a new handle, and a handle
\* another caller installed in between is no longer self._db, so that
\* close() cannot reach it.
C17_ConcurrentFirstUseOpensTwice ==
  /\ [][\A c \in Callers :
          (pc[c].init = "must_open" /\ pc'[c].init = "ready")
          => /\ opened' = opened + 1
             /\ self_db' = Some(opened')
             /\ self_db # None
                => self_db[1] \notin CloseHandle(self_db', closed')]_vars
  /\ [](\A h \in 1..opened :
          Some(h) # self_db => h \notin CloseHandle(self_db, closed))

\* Both callers found the handle unset: the substrate was opened twice and
\* the first handle is out of reach.
C17_Witness ==
  /\ opened = 2
  /\ self_db = Some(2)
  /\ \A c \in Callers : pc[c].op = "idle"
  /\ 1 \notin CloseHandle(self_db, closed)

\* --------------------------------------------------------------- C18
\* C18: a get_tuple without checkpoint_id on a thread that held a
\* checkpoint when the call began, during which at most one put landed on
\* the thread, with a checkpoint_id above all the thread held, and no
\* delete_thread ever ran, returns the checkpoint that was the latest when
\* it began or the one the put stored, whole; it does not return absent.
C18_LatestRacingPut ==
  (/\ last.op = "get_tuple"
   /\ ~Truthy(last.arg)
   /\ last.g.latest.tag = "tuple"
   /\ \A i \in 1..Len(hist) : hist[i].op # "delete_thread"
   /\ Len(last.since) <= 1
   /\ \A i \in 1..Len(last.since) :
        /\ last.since[i].op = "put"
        /\ last.since[i].thread_id = last.thread_id
        /\ \A j \in 1..Len(last.g.checkpoints) :
             LexLess(last.g.checkpoints[j],
                     CheckpointKey(last.thread_id, last.since[i].id)))
  => \/ last.ret = last.g.latest
     \/ /\ last.since # <<>>
        /\ last.ret = TupleOf(last.thread_id, last.arg, last.since[1])

\* The put landed while the get_tuple ran, and the get_tuple returned the
\* new checkpoint.
C18_Witness ==
  /\ last.op = "get_tuple"
  /\ ~Truthy(last.arg)
  /\ last.g.latest.tag = "tuple"
  /\ Len(last.since) = 1
  /\ last.since[1].op = "put"
  /\ last.since[1].id # last.g.latest.checkpoint[1]
  /\ last.ret = TupleOf(last.thread_id, last.arg, last.since[1])

\* --------------------------------------------------------------- C19
\* C19: in every state, also between the steps of a put and of a
\* delete_thread of another caller, a get_tuple by the exact key returns
\* absent or the state, metadata and parent reference of one put to that
\* key.
C19_NeverPartiallyVisible ==
  /\ \A i \in {<<"x">>, <<"y">>} :
       LET r == GetTuple(db, RaceThread, Some(i))
       IN \/ r = Absent
          \/ \E k \in 1..Len(hist) :
               /\ PutTo(hist[k], CheckpointKey(RaceThread, i))
               /\ r = TupleOf(RaceThread, Some(i), hist[k])
  /\ (last.op = "get_tuple" /\ Truthy(last.arg))
     => \/ last.ret = Absent
        \/ \E k \in 1..Len(hist) :
             /\ PutTo(hist[k], CheckpointKey(last.thread_id, last.arg[1]))
             /\ last.ret = TupleOf(last.thread_id, last.arg, hist[k])

\* A second put to the key, with another state, metadata and parent, landed
\* while the get_tuple ran.
C19_Witness ==
  /\ last.op = "get_tuple"
  /\ Truthy(last.arg)
  /\ Len(hist) = 2
  /\ hist[1].op = "put"
  /\ hist[2].op = "put"
  /\ hist[1].id = hist[2].id
  /\ hist[1].x # hist[2].x
  /\ last.since = <<hist[2]>>
  /\ last.ret = TupleOf(last.thread_id, last.arg, hist[2])

\* --------------------------------------------------------------- C21
\* C21: in every store that put, put_writes and delete_thread calls have
\* left, list without limit yields nothing exactly when get_tuple without
\* checkpoint_id returns absent, and otherwise its first element holds the
\* checkpoint, metadata and parent reference get_tuple returns.  Every
\* store is met in the state its last store-changing call left.
C21_ListAgreesWithLatest ==
  (/\ Quiescent
   /\ \A i \in 1..Len(hist) :
        hist[i].op \in {"put", "put_writes", "delete_thread"})
  => \A t \in ThreadIds :
       LET l == List(db, t, None)
           g == GetTuple(db, t, None)
       IN /\ (l = <<>>) <=> (g = Absent)
          /\ l # <<>>
             => /\ g.tag = "tuple"
                /\ g.checkpoint = l[1].checkpoint
                /\ g.metadata = l[1].metadata
                /\ g.parent_config = l[1].parent_config

\* A thread with two checkpoints was listed: the first element is the one
\* get_tuple returns, the second another.
C21_Witness ==
  /\ \A i \in 1..Len(hist) : hist[i].op = "put"
  /\ last.op = "list"
  /\ last.arg = None
  /\ Len(last.ret) = 2
  /\ last.ret[1].checkpoint = GetTuple(db, last.thread_id, None).checkpoint
  /\ last.ret[2].checkpoint # last.ret[1].checkpoint

\* --------------------------------------------------------------- C22
\* C22: when the puts on a thread were followed by one overwrite of one of
\* its keys with a value that cannot be decoded, list without limit yields
\* the checkpoints of all its other keys, newest first.
C22_CorruptAffectsOnlyItself ==
  (/\ last.op = "list"
   /\ last.arg = None
   /\ Len(hist) >= 2
   /\ LastCall.op = "external_write"
   /\ HasPrefix(LastCall.id, CheckpointPrefix(last.thread_id))
   /\ \A i \in 1..(Len(hist) - 1) : PutIsOn(hist[i], last.thread_id))
  => LET t == last.thread_id
         others == {k \in DOMAIN db :
                      HasPrefix(k, CheckpointPrefix(t)) /\ k # LastCall.id}
     IN /\ Len(last.ret) = Cardinality(others)
        /\ \A k \in others :
             \E i \in 1..Len(last.ret) :
               CheckpointKey(t, last.ret[i].checkpoint[1]) = k
        /\ \A i \in 1..(Len(last.ret) - 1) :
             LexLess(last.ret[i + 1].checkpoint[1], last.ret[i].checkpoint[1])

\* ------------------------------- one caller, another writer of the store
\* Calls the caller may begin and changes the other writer may make,
\* together.
MaxTamperCalls == 4
TamperThread == <<"a">>
TamperCalls ==
  {CallOf("put", TamperThread, [id |-> i, p |-> FaultPayload]) :
     i \in {<<"x">>, <<"y">>}}
  \cup {CallOf("get_tuple", TamperThread, i) : i \in {None, Some(<<>>)}}
\* What the other writer leaves under a key: nothing (the key is deleted),
\* an empty value, or bytes that are not JSON.
Unreadable == {None, Some(<<>>), Some(<<"o">>)}

\* Another writer of the shared database deletes a stored checkpoint key
\* or overwrites its value, between any two substrate calls of the caller.
tamper(key, v) ==
  /\ calls > 0
  /\ calls' = calls - 1
  /\ HasPrefix(key, CheckpointsLit \o <<"/">>)
  /\ db' = IF v = None THEN DbDelete(db, key) ELSE DbPut(db, key, v[1])
  /\ hist' = Append(hist, Call(IF v = None THEN "external_delete"
                               ELSE "external_write", <<>>, key, v,
                               <<>>, None))
  /\ UNCHANGED <<last, self_db, opened, closed, pc,
                 cmdvars>>

TamperInit ==
  /\ db = <<>>
  /\ hist = <<>>
  /\ last = Returned("init", <<>>, None, Absent)
  /\ InitInstance
  /\ NoCommander
  /\ calls = MaxTamperCalls

TamperNext ==
  \/ \E call \in TamperCalls : begin(1, call)
  \/ db_open(1)
  \/ get_tuple_scan(1)
  \/ get_tuple_get(1)
  \/ put_store(1)
  \/ \E k \in DOMAIN db, v \in Unreadable : tamper(k, v)

\* One caller of the store, and another writer of the database it is in.
TamperSpec == TamperInit /\ [][TamperNext]_vars

\* --------------------------------------------------------------- C23
\* The value under the key cannot be read: the key is missing, or its value
\* is empty or not JSON.
UnreadableAt(store, key) ==
  \/ key \notin DOMAIN store
  \/ store[key] = <<>>
  \/ ~JsonLoads(Utf8DecodeReplace(store[key])).ok

\* C23: a get_tuple whose checkpoint_id is missing or the empty string
\* scans for the latest key and then reads that key only: when the key has
\* become unreadable by the time of the read, it returns absent, whatever
\* older checkpoints the thread holds.
C23_LatestHasNoFallback ==
  [][\A c \in Callers :
       /\ (/\ pc[c].op = "idle"
           /\ pc'[c].op = "get_tuple"
           /\ ~Truthy(pc'[c].arg))
          => pc'[c].stage = "scan" /\ pc'[c].acc = None
       /\ (/\ pc[c].op = "get_tuple"
           /\ ~Truthy(pc[c].arg)
           /\ pc[c].stage = "get"
           /\ pc'[c].op = "idle"
           /\ UnreadableAt(db, pc[c].acc[1]))
          => last'.ret = Absent]_vars

\* The latest key was deleted after the scan had found it: the get_tuple
\* returned absent while an older checkpoint is stored and readable.
C23_Witness ==
  /\ last.op = "get_tuple"
  /\ last.arg = Some(<<>>)
  /\ last.ret = Absent
  /\ Len(last.since) = 1
  /\ last.since[1].op = "external_delete"
  /\ \E k \in DOMAIN db :
       /\ HasPrefix(k, CheckpointPrefix(last.thread_id))
       /\ GetTuple(db, last.thread_id,
                   Some(SubSeq(k, Len(CheckpointPrefix(last.thread_id)) + 1,
                               Len(k)))).tag = "tuple"

\* ---------------------------------------------------------------------
\* The incident commander: monitor_loop, handle_incident and
\* _update_incident_state, one step per database or model call, next to
\* another process that writes incidents/current/severity.
\* ---------------------------------------------------------------------

MaxCount == 3

IncidentStates == <<"NONE", "OPEN", "MITIGATING", "RESOLVED">>

\* What incidents/current/severity can hold: missing, empty, "NONE", or a
\* raised severity.
SeverityValues == {None, Some(""), Some("NONE"), Some("HIGH")}

\* Mutant of ShouldHandle: the test without its incident_state conjunct.
ShouldHandleAnyState(sev, state) ==
  /\ sev # None
  /\ sev[1] # ""
  /\ sev[1] # "NONE"

\* monitor_loop, line 51:
\*   severity and severity.decode() != "NONE" and self.incident_state == "NONE"
ShouldHandle(sev, state) ==
  /\ sev # None
  /\ sev[1] # ""
  /\ sev[1] # "NONE"
  /\ state = "NONE"

\* handle_incident in the order of its calls: the state it passes to
\* _update_incident_state at each position, and the position after it.
UpdateAt == [update_OPEN |-> "OPEN", update_MITIGATING |-> "MITIGATING",
             update_RESOLVED |-> "RESOLVED"]
AfterUpdate == [update_OPEN |-> "plan", update_MITIGATING |-> "update_RESOLVED",
                update_RESOLVED |-> "reset"]

\* monitor_loop(iterations) is called on the constructed commander.
monitor_loop(n) ==
  /\ cpc = "new"
  /\ cpc' = "check"
  /\ iterations' = n
  /\ count' = 0
  /\ UNCHANGED <<incident_state, incidents, severity, handled, storevars>>

\* One pass of the loop up to the call of handle_incident: count += 1, the
\* read of the severity key, the test of line 51.
monitor_check ==
  /\ cpc = "check"
  /\ count < MaxCount
  /\ count' = count + 1
  /\ severity' = incidents.severity
  /\ IF ShouldHandle(severity', incident_state)
       THEN /\ handled' = handled + 1
            /\ cpc' = "update_OPEN"
       ELSE /\ handled' = handled
            /\ cpc' = "status"
  /\ UNCHANGED <<incident_state, incidents, iterations, storevars>>

\* _update_incident_state(state, details): the puts, then
\* self.incident_state = state.
update_incident_state ==
  /\ cpc \in DOMAIN UpdateAt
  /\ incidents' = [incidents EXCEPT !.state = Some(UpdateAt[cpc])]
  /\ incident_state' = UpdateAt[cpc]
  /\ cpc' = AfterUpdate[cpc]
  /\ UNCHANGED <<count, iterations, severity, handled, storevars>>

\* handle_incident between OPEN and MITIGATING: runbook retrieval and the
\* model's plan.
handle_incident_plan ==
  /\ cpc = "plan"
  /\ cpc' = "update_MITIGATING"
  /\ UNCHANGED <<incident_state, incidents, count, iterations, severity,
                 handled, storevars>>

\* handle_incident's last put: the shared severity key goes back to NONE,
\* and control returns to the loop.
handle_incident_reset ==
  /\ cpc = "reset"
  /\ incidents' = [incidents EXCEPT !.severity = Some("NONE")]
  /\ cpc' = "status"
  /\ UNCHANGED <<incident_state, count, iterations, severity, handled,
                 storevars>>

\* The status update of lines 59-63: reads only.
monitor_status ==
  /\ cpc = "status"
  /\ cpc' = "loop_end"
  /\ UNCHANGED <<incident_state, incidents, count, iterations, severity,
                 handled, storevars>>

\* if iterations and count >= iterations: break; otherwise sleep and loop.
monitor_loop_end ==
  /\ cpc = "loop_end"
  /\ cpc' = IF iterations # 0 /\ count >= iterations THEN "done" ELSE "check"
  /\ UNCHANGED <<incident_state, incidents, count, iterations, severity,
                 handled, storevars>>

\* A database or model call raises; nothing in monitor_loop or
\* handle_incident catches it, so the loop is left. In
\* _update_incident_state the state key may or may not have been written,
\* and the assignment to incident_state is not reached.
commander_raise ==
  /\ \/ cpc \in {"check", "plan", "reset"} \cup DOMAIN UpdateAt
     \/ cpc = "status" /\ incident_state = "NONE"
  /\ cpc' = "raised"
  /\ \/ UNCHANGED incidents
     \/ /\ cpc \in DOMAIN UpdateAt
        /\ incidents.state # Some(UpdateAt[cpc])
        /\ incidents' = [incidents EXCEPT !.state = Some(UpdateAt[cpc])]
  /\ UNCHANGED <<incident_state, count, iterations, severity, handled,
                 storevars>>

\* Another process writes or removes incidents/current/severity.
other_process(v) ==
  /\ incidents.severity # v
  /\ incidents' = [incidents EXCEPT !.severity = v]
  /\ UNCHANGED <<incident_state, cpc, count, iterations, severity, handled,
                 storevars>>

CommanderInit ==
  /\ db = <<>>
  /\ hist = <<>>
  /\ last = Returned("init", <<>>, None, Absent)
  /\ InitInstance
  /\ calls = 0
  /\ NoCommander

CommanderNext ==
  \/ \E n \in 0..MaxCount : monitor_loop(n)
  \/ monitor_check
  \/ update_incident_state
  \/ handle_incident_plan
  \/ handle_incident_reset
  \/ monitor_status
  \/ monitor_loop_end
  \/ commander_raise
  \/ \E v \in SeverityValues : other_process(v)

CommanderSpec == CommanderInit /\ [][CommanderNext]_vars

IndexOfState(st) == CHOOSE i \in 1..Len(IncidentStates) : IncidentStates[i] = st

\* C24: the commander's incident_state only moves NONE -> OPEN ->
\* MITIGATING -> RESOLVED, one step at a time, and never returns to NONE;
\* handle_incident is entered only while incident_state is NONE, so one
\* commander enters it at most once, whatever the severity key holds later.
C24_OneIncidentPerCommander ==
  [][/\ incident_state' # incident_state
        => IndexOfState(incident_state') = IndexOfState(incident_state) + 1
     /\ handled' # handled
        => /\ incident_state = "NONE"
           /\ handled = 0
           /\ handled' = 1]_vars

\* The commander resolved its incident and reset the severity key, another
\* process raised the key again, and a later pass of the loop read the
\* raised severity without handling it.
C24_Witness ==
  /\ incident_state = "RESOLVED"
  /\ handled = 1
  /\ cpc = "status"
  /\ count >= 2
  /\ severity = Some("HIGH")
  /\ incidents.severity = Some("HIGH")

====
